---------------------------- MODULE Spec2Model ----------------------------
(***************************************************************************)
(* Model of the focus arbitrator AFML/src/FocusManager.cpp.                *)
(*                                                                         *)
(* Caller threads run the synchronous parts of acquireChannel,             *)
(* releaseChannel, stopForegroundActivity and stopAllActivities; one       *)
(* executor worker runs the queued helpers.  The worker's position inside  *)
(* a helper is pc; a helper is cut at every setChannelFocus call, at every *)
(* section guarded by m_mutex, at every callback to a global observer and  *)
(* at the append to the activity updates that ends a setChannelFocus call, *)
(* so that caller threads interleave with a running helper exactly where   *)
(* the code lets them.                                                     *)
(*                                                                         *)
(* Channel (AFML/src/Channel.cpp) and Executor (AVSCommon) are used by     *)
(* FocusManager.cpp and are modelled from their description in spec.md.    *)
(***************************************************************************)
EXTENDS Integers, Sequences, FiniteSets, TLC

\* ------------------------------------------------------------------ bounds

\* Number of public calls made in one behaviour of Spec (three channels) and
\* of SpecAllCalls (two channels, an unregistered name, global observers).
MaxOps == 3

\* Number of public calls made in one behaviour of SpecDeep (two channels, one
\* observer, no stopAllActivities).
MaxOpsDeep == 4

\* Number of public calls made in one behaviour of SpecLive (two channels, one
\* observer, a fair worker).
MaxOpsLive == 3

\* Longest configuration list handed to the constructor in SpecConstruct.
MaxConfigs == 3

\* ------------------------------------------------------------- input sets

NoObserver == "nullptr"
NoChannel == "nullptr"
NoInterface == ""

Observers == {"o1", "o2"}
Interfaces == {"i1", "i2"}
GlobalObservers == {"g1", "g2"}

\* The configuration list handed to the constructor.
channelConfigurations ==
    << [name |-> "Dialog", priority |-> 100],
       [name |-> "Alert", priority |-> 200],
       [name |-> "Content", priority |-> 400] >>

\* The entries the configuration lists of SpecConstruct are made of.
ConfigNames == {"A", "B", "C"}
ConfigPriorities == {1, 2}
ConfigEntries == [name : ConfigNames, priority : ConfigPriorities]

\* A name callers may pass that is in no configuration.
UnknownName == "Unknown"

FocusStates == {"NONE", "BACKGROUND", "FOREGROUND"}

\* ------------------------------------------------------------ construction

doesChannelNameExist(reg, name) == \E c \in reg : c.name = name

doesChannelPriorityExist(reg, priority) == \E c \in reg : c.priority = priority

RECURSIVE Construct(_, _)
Construct(configs, reg) ==
    IF configs = << >> THEN reg
    ELSE LET config == Head(configs) IN
         IF doesChannelNameExist(reg, config.name) THEN Construct(Tail(configs), reg)
         ELSE IF doesChannelPriorityExist(reg, config.priority) THEN Construct(Tail(configs), reg)
         ELSE Construct(Tail(configs), reg \cup {config})

\* The registry: the set of {name, priority} entries kept by the constructor.
m_allChannels == Construct(channelConfigurations, {})

Channels == {c.name : c \in m_allChannels}

getPriority(ch) == (CHOOSE c \in m_allChannels : c.name = ch).priority

getChannel(channelName) == IF channelName \in Channels THEN channelName ELSE NoChannel

\* Channel::operator> : a outranks b iff its priority value is smaller.
Outranks(a, b) == getPriority(a) < getPriority(b)

\* ------------------------------------------------------------------- state

VARIABLES
    focus,              \* Channel::m_state.focusState, per channel
    interface,          \* Channel::m_state.interfaceName, per channel
    observer,           \* Channel::m_observer, per channel
    m_activeChannels,   \* the set ordered by priority; begin() is the minimum
    m_activityUpdates,  \* the pending activity batch
    m_observers,        \* the registered global focus observers
    queue,              \* the executor's queue, head first
    cur,                \* the task the worker is running, or NoTask
    pc,                 \* where the worker is in that task
    local,              \* the running helper's local variables
    futures,            \* the promises made by releaseChannel, in call order
    callers,            \* stop calls between their snapshot and their submit
    nCalls,             \* public calls made so far
    nSubmitted,         \* tasks handed to the executor so far
    lastCall,           \* the last public call that returned, and its result
    pre,                \* channel state when the running task started
    notified,           \* observer callbacks made by the running task
    calling,            \* the setChannelFocus call the worker is in
    tracked,            \* batches the running task handed to the activity tracker
    roundTrip,          \* the last acquire task, while a release may follow it
    delivered,          \* history: the last focus state each observer was told
    history,            \* whether delivered and the stops' attached are kept
    m_activityTracker,  \* the activity tracker the manager was built with
    config,             \* the constructor's list, its next entry, the entries kept
    registry            \* m_allChannels while the constructor builds it

vars == << focus, interface, observer, m_activeChannels, m_activityUpdates, m_observers, queue,
           cur, pc, local, futures, callers, nCalls, nSubmitted, lastCall, pre, notified,
           calling, tracked, roundTrip, delivered, history, m_activityTracker, config, registry >>

chanVars == << focus, interface, observer >>

\* Written by the constructor only; history never changes.
registryVars == << config, registry, history, m_activityTracker >>

NoTask == [op |-> "none", ch |-> NoChannel, obs |-> NoObserver, iface |-> NoInterface,
           fut |-> 0, owners |-> {}, id |-> 0, attached |-> {}]

\* In a stop task and in a stop call in progress, attached is the history of
\* the snapshot: each snapshotted channel with the observer it had then.

\* calling: the channel and focus state of the setChannelFocus call in
\* progress, its copy of m_observers with the observers called back taken
\* off, and where the helper goes on once the call returns.
NoCalling == [ch |-> NoChannel, f |-> "NONE", observers |-> << >>, next |-> "idle"]

NoLocal == [foregroundChannel |-> NoChannel, wasForegrounded |-> FALSE, channelsToClear |-> {}]

NoPre == [focus |-> << >>, interface |-> << >>, observer |-> << >>, active |-> {}]

\* lastCall: n is the call's number; for stopForegroundActivity, name is the
\* snapshotted channel, owner its observer and fg whether it was FOREGROUND at
\* the snapshot, and quiet says that no acquire task of that channel for that
\* observer was queued or running at the snapshot and none was submitted
\* before the stop task was.
NoCall == [op |-> "none", name |-> NoChannel, ret |-> "void", n |-> 0,
           owner |-> NoObserver, fg |-> FALSE, quiet |-> FALSE]

Returned(op, name, ret, n) == [NoCall EXCEPT !.op = op, !.name = name, !.ret = ret, !.n = n]

NoCaller == [op |-> "none", ch |-> NoChannel, iface |-> NoInterface, owners |-> {}, attached |-> {},
             call |-> 0,
             owner |-> NoObserver, fg |-> FALSE, quiet |-> FALSE]

\* roundTrip: the acquire task that runs ("acquire") or was the last task to
\* run ("acquired"), with the active set it started from, and then the release
\* task of the same channel by the same observer that follows it ("release").
NoRoundTrip == [ch |-> NoChannel, obs |-> NoObserver, before |-> {}, stage |-> "none"]

\* A promise of releaseChannel: val is its future's value; afterStop says that
\* the call came right after a stopForegroundActivity call that found ch in
\* the foreground and owned by obs, and quiet is that call's quiet.
NoFuture == [ch |-> NoChannel, obs |-> NoObserver, val |-> "pending", afterStop |-> FALSE,
             quiet |-> FALSE]

\* ------------------------------------------------- helpers on the state

\* FocusManager::getHighestPriorityActiveChannelLocked
getHighestPriorityActiveChannelLocked(active) ==
    IF active = {} THEN NoChannel
    ELSE CHOOSE c \in active : \A d \in active : getPriority(c) <= getPriority(d)

\* FocusManager::isChannelForegroundedLocked
isChannelForegroundedLocked(active, ch) == getHighestPriorityActiveChannelLocked(active) = ch

\* Channel::doesObserverOwnChannel
doesObserverOwnChannel(ch, obs) == obs = observer[ch]

\* Channel::hasObserver
hasObserver(ch) == observer[ch] # NoObserver


\* The orders in which a loop may go through the set S of observers: the
\* set is ordered by pointer, not by anything the callers chose.
Orders(S) ==
    {order \in [1..Cardinality(S) -> S] : \A i, j \in 1..Cardinality(S) : order[i] = order[j] => i = j}

\* ------------------------------------------------------------------ Channel

\* Channel::setFocus reports whether the state changes.
setFocusChanges(ch, f) == focus[ch] # f

\* Channel::setFocus: the observer attached once focus f has been applied;
\* a channel that goes to NONE is vacated.
observerAfterSetFocus(ch, f) == IF f = "NONE" THEN NoObserver ELSE observer[ch]

\* Channel::setFocus: the callback to the attached observer, if there is one.
channelObserverCallbacks(ch, f) ==
    IF observer[ch] # NoObserver THEN << [to |-> observer[ch], ch |-> ch, state |-> f] >> ELSE << >>

\* FocusManager::setChannelFocus: the callback to global observer g.
globalObserverCallback(g, ch, f) == [to |-> g, ch |-> ch, state |-> f]

\* FocusManager::setChannelFocus: the activity record, Channel::getState()
\* read after the focus has been applied.
activityRecord(ch, f) == [name |-> ch, focusState |-> f, interfaceName |-> interface[ch]]

\* The history of the callbacks to channel observers.  delivered.seen[c] is
\* the last focus state channel c has told the observer now attached to it,
\* Untold when it has told it none since it was attached; delivered.last[o]
\* is the last focus state observer o has been told by any channel.
Untold == "nothing"
NothingDelivered == [seen |-> [c \in Channels |-> Untold], last |-> [o \in Observers |-> Untold]]

\* Channel::setFocus: the history once the attached observer, if there is
\* one, has been told f; told NONE, the observer is detached.
deliveredAfterSetFocus(ch, f) ==
    IF observer[ch] = NoObserver \/ ~history THEN delivered
    ELSE [seen |-> [delivered.seen EXCEPT ![ch] = IF f = "NONE" THEN Untold ELSE f],
          last |-> [delivered.last EXCEPT ![observer[ch]] = f]]

\* Channel::setObserver: the history once another observer is attached.
deliveredAfterSetObserver(ch) == IF history THEN [delivered EXCEPT !.seen[ch] = Untold] ELSE delivered

\* setChannelFocus that goes on whatever Channel::setFocus returns.
setChannelFocus_ignoresResult(ch, f, next) ==
    /\ focus' = [focus EXCEPT ![ch] = f]
    /\ observer' = [observer EXCEPT ![ch] = observerAfterSetFocus(ch, f)]
    /\ notified' = notified \o (IF setFocusChanges(ch, f) THEN channelObserverCallbacks(ch, f) ELSE << >>)
    /\ delivered' = IF setFocusChanges(ch, f) THEN deliveredAfterSetFocus(ch, f) ELSE delivered
    /\ calling' = [NoCalling EXCEPT !.ch = ch, !.f = f, !.next = next]
    /\ pc' = "setChannelFocus_lock"
    /\ UNCHANGED m_activityUpdates

\* FocusManager::setChannelFocus up to its lock: Channel::setFocus, which
\* calls the attached observer, and the return when nothing changed.  The
\* helper goes on at next once the call has returned.
setChannelFocus(ch, f, next) ==
    IF ~setFocusChanges(ch, f)
    THEN /\ pc' = next
         /\ UNCHANGED << focus, observer, notified, delivered, m_activityUpdates, calling >>
    ELSE /\ focus' = [focus EXCEPT ![ch] = f]
         /\ observer' = [observer EXCEPT ![ch] = observerAfterSetFocus(ch, f)]
         /\ notified' = notified \o channelObserverCallbacks(ch, f)
         /\ delivered' = deliveredAfterSetFocus(ch, f)
         /\ calling' = [NoCalling EXCEPT !.ch = ch, !.f = f, !.next = next]
         /\ pc' = "setChannelFocus_lock"
         /\ UNCHANGED m_activityUpdates

\* The history of a stop call's snapshot of channels chs: each with the
\* observer attached to it now.
attachedNow(chs) == IF history THEN {<< c, observer[c] >> : c \in chs} ELSE {}

\* ----------------------------------------------------------------- Executor

\* Executor::submit: the task goes to the back of the queue.
submit(q, task) == Append(q, task)

\* Executor::submitToFront: the task goes to the front of the queue.
submitToFront(q, task) == << task >> \o q

\* ------------------------------------------------------------------- Init

\* The manager before its first call: no channel held, nothing queued.
NothingHeld ==
    /\ focus = [c \in Channels |-> "NONE"]
    /\ interface = [c \in Channels |-> NoInterface]
    /\ observer = [c \in Channels |-> NoObserver]
    /\ m_activeChannels = {}
    /\ m_activityUpdates = << >>
    /\ m_observers = {}
    /\ queue = << >>
    /\ cur = NoTask
    /\ pc = "idle"
    /\ local = NoLocal
    /\ futures = << >>
    /\ callers = {}
    /\ nCalls = 0
    /\ nSubmitted = 0
    /\ lastCall = NoCall
    /\ pre = NoPre
    /\ notified = << >>
    /\ tracked = << >>
    /\ roundTrip = NoRoundTrip
    /\ calling = NoCalling
    /\ delivered = NothingDelivered

\* The state after construction from channelConfigurations.
Constructed ==
    /\ NothingHeld
    /\ config = [list |-> channelConfigurations, next |-> Len(channelConfigurations) + 1,
                 kept |-> {i \in DOMAIN channelConfigurations : channelConfigurations[i] \in m_allChannels}]
    /\ registry = m_allChannels

\* The constructor's activityTrackerInterface: a tracker, or none.
ActivityTracker == "activityTracker"
NoActivityTracker == "nullptr"

\* The state after construction with an activity tracker, no history kept.
Init == Constructed /\ history = FALSE /\ m_activityTracker = ActivityTracker

\* The state after construction with an activity tracker, the history kept.
InitHistory == Constructed /\ history = TRUE /\ m_activityTracker = ActivityTracker

\* The state after construction with or without an activity tracker.
InitAnyTracker == Constructed /\ history = FALSE /\ m_activityTracker \in {ActivityTracker, NoActivityTracker}

workerVars == << cur, pc, local, pre, notified, calling, tracked, roundTrip, delivered >>
managerVars == << focus, interface, observer, m_activeChannels, m_activityUpdates >>

\* ------------------------------------------------------------- constructor

\* The constructor is handed a list of at most MaxConfigs entries.
ConfigLists == UNION {[1..n -> ConfigEntries] : n \in 0..MaxConfigs}

InitConstruct ==
    /\ NothingHeld
    /\ config \in {[list |-> l, next |-> 1, kept |-> {}] : l \in ConfigLists}
    /\ registry = {}
    /\ history = FALSE
    /\ m_activityTracker \in {ActivityTracker, NoActivityTracker}

\* The constructor's loop body without the test of the priority.
createChannel_noPriorityTest ==
    /\ config.next <= Len(config.list)
    /\ LET c == config.list[config.next] IN
       IF doesChannelNameExist(registry, c.name)
       THEN /\ config' = [config EXCEPT !.next = @ + 1]
            /\ UNCHANGED registry
       ELSE /\ registry' = registry \cup {c}
            /\ config' = [config EXCEPT !.next = @ + 1, !.kept = @ \cup {config.next}]
    /\ UNCHANGED << managerVars, m_observers, queue, workerVars, futures, callers, nCalls, nSubmitted,
                    lastCall, history, m_activityTracker >>

\* FocusManager::FocusManager: one turn of the loop over channelConfigurations
createChannel ==
    /\ config.next <= Len(config.list)
    /\ LET c == config.list[config.next] IN
       IF doesChannelNameExist(registry, c.name)
       THEN /\ config' = [config EXCEPT !.next = @ + 1]
            /\ UNCHANGED registry
       ELSE IF doesChannelPriorityExist(registry, c.priority)
       THEN /\ config' = [config EXCEPT !.next = @ + 1]
            /\ UNCHANGED registry
       ELSE /\ registry' = registry \cup {c}
            /\ config' = [config EXCEPT !.next = @ + 1, !.kept = @ \cup {config.next}]
    /\ UNCHANGED << managerVars, m_observers, queue, workerVars, futures, callers, nCalls, nSubmitted,
                    lastCall, history, m_activityTracker >>


\* --------------------------------------------------- public calls (callers)

\* An acquire task of channel ch for observer obs is queued or running.
AcquirePending(ch, obs) ==
    \/ cur.op = "acquire" /\ cur.ch = ch /\ cur.obs = obs
    \/ \E i \in DOMAIN queue : queue[i].op = "acquire" /\ queue[i].ch = ch /\ queue[i].obs = obs

\* The stop calls in progress, once an acquire task of ch for obs is submitted.
NotQuiet(ch, obs) ==
    {IF c.ch = ch /\ c.owner = obs THEN [c EXCEPT !.quiet = FALSE] ELSE c : c \in callers}

\* acquireChannel that hands its task to submitToFront.
acquireChannel_toFront(channelName, channelObserver, iface) ==
    /\ nCalls' = nCalls + 1
    /\ IF getChannel(channelName) = NoChannel
       THEN /\ lastCall' = Returned("acquireChannel", channelName, "false", nCalls + 1)
            /\ UNCHANGED << queue, nSubmitted >>
       ELSE /\ queue' = submitToFront(queue, [NoTask EXCEPT !.op = "acquire",
                                              !.ch = getChannel(channelName), !.obs = channelObserver,
                                              !.iface = iface, !.id = nSubmitted + 1])
            /\ nSubmitted' = nSubmitted + 1
            /\ lastCall' = Returned("acquireChannel", channelName, "true", nCalls + 1)
    /\ callers' = NotQuiet(channelName, channelObserver)
    /\ UNCHANGED << managerVars, m_observers, workerVars, futures, registryVars >>

\* acquireChannel that reports success whatever getChannel returns.
acquireChannel_alwaysTrue(channelName, channelObserver, iface) ==
    /\ nCalls' = nCalls + 1
    /\ IF getChannel(channelName) = NoChannel
       THEN UNCHANGED << queue, nSubmitted >>
       ELSE /\ queue' = submit(queue, [NoTask EXCEPT !.op = "acquire", !.ch = getChannel(channelName),
                                       !.obs = channelObserver, !.iface = iface, !.id = nSubmitted + 1])
            /\ nSubmitted' = nSubmitted + 1
    /\ lastCall' = Returned("acquireChannel", channelName, "true", nCalls + 1)
    /\ callers' = NotQuiet(channelName, channelObserver)
    /\ UNCHANGED << managerVars, m_observers, workerVars, futures, registryVars >>

\* FocusManager::acquireChannel
acquireChannel(channelName, channelObserver, iface) ==
    /\ nCalls' = nCalls + 1
    /\ IF getChannel(channelName) = NoChannel
       THEN /\ lastCall' = Returned("acquireChannel", channelName, "false", nCalls + 1)
            /\ UNCHANGED << queue, nSubmitted >>
       ELSE /\ queue' = submit(queue, [NoTask EXCEPT !.op = "acquire", !.ch = getChannel(channelName),
                                       !.obs = channelObserver, !.iface = iface, !.id = nSubmitted + 1])
            /\ nSubmitted' = nSubmitted + 1
            /\ lastCall' = Returned("acquireChannel", channelName, "true", nCalls + 1)
    /\ callers' = NotQuiet(channelName, channelObserver)
    /\ UNCHANGED << managerVars, m_observers, workerVars, futures, registryVars >>

\* The promise releaseChannel makes, with what the call follows.
newFuture(channelName, channelObserver) ==
    [NoFuture EXCEPT !.ch = channelName, !.obs = channelObserver,
                     !.afterStop = /\ lastCall.op = "stopForegroundActivity"
                                   /\ lastCall.name = channelName
                                   /\ lastCall.owner = channelObserver
                                   /\ lastCall.fg,
                     !.quiet = lastCall.quiet]

\* FocusManager::releaseChannel
releaseChannel(channelName, channelObserver) ==
    /\ nCalls' = nCalls + 1
    /\ IF getChannel(channelName) = NoChannel
       THEN /\ futures' = Append(futures, [newFuture(channelName, channelObserver) EXCEPT !.val = "false"])
            /\ lastCall' = Returned("releaseChannel", channelName, "future:false", nCalls + 1)
            /\ UNCHANGED << queue, nSubmitted >>
       ELSE /\ futures' = Append(futures, newFuture(channelName, channelObserver))
            /\ queue' = submit(queue, [NoTask EXCEPT !.op = "release", !.ch = getChannel(channelName),
                                       !.obs = channelObserver, !.fut = Len(futures) + 1,
                                       !.id = nSubmitted + 1])
            /\ nSubmitted' = nSubmitted + 1
            /\ lastCall' = Returned("releaseChannel", channelName, "future:pending", nCalls + 1)
    /\ UNCHANGED << managerVars, m_observers, workerVars, callers, registryVars >>

\* FocusManager::stopForegroundActivity, up to lock.unlock(): the snapshot of
\* the foreground channel and of its interface name.
stopForegroundActivity_snapshot ==
    /\ nCalls' = nCalls + 1
    /\ LET foregroundChannel == getHighestPriorityActiveChannelLocked(m_activeChannels) IN
       IF foregroundChannel = NoChannel
       THEN /\ lastCall' = Returned("stopForegroundActivity", NoChannel, "void", nCalls + 1)
            /\ UNCHANGED callers
       ELSE /\ callers' = callers \cup
                 {[NoCaller EXCEPT !.op = "stopForeground", !.ch = foregroundChannel,
                      !.iface = interface[foregroundChannel], !.call = nCalls + 1,
                      !.attached = attachedNow({foregroundChannel}),
                      !.owner = observer[foregroundChannel],
                      !.fg = (focus[foregroundChannel] = "FOREGROUND"),
                      !.quiet = ~AcquirePending(foregroundChannel, observer[foregroundChannel])]}
            /\ UNCHANGED lastCall
    /\ UNCHANGED << managerVars, m_observers, workerVars, queue, futures, nSubmitted, registryVars >>

\* stopForegroundActivity that hands its task to submit.
stopForegroundActivity_submit_toBack ==
    \E c \in callers :
        /\ c.op = "stopForeground"
        /\ callers' = callers \ {c}
        /\ queue' = submit(queue, [NoTask EXCEPT !.op = "stopForeground", !.ch = c.ch,
                                   !.iface = c.iface, !.attached = c.attached,
                                   !.id = nSubmitted + 1])
        /\ nSubmitted' = nSubmitted + 1
        /\ lastCall' = [Returned("stopForegroundActivity", c.ch, "void", c.call) EXCEPT
                           !.owner = c.owner, !.fg = c.fg,
                           !.quiet = c.quiet]
        /\ UNCHANGED << managerVars, m_observers, workerVars, futures, nCalls, registryVars >>

\* FocusManager::stopForegroundActivity, m_executor.submitToFront
stopForegroundActivity_submit ==
    \E c \in callers :
        /\ c.op = "stopForeground"
        /\ callers' = callers \ {c}
        /\ queue' = submitToFront(queue, [NoTask EXCEPT !.op = "stopForeground", !.ch = c.ch,
                                          !.iface = c.iface, !.attached = c.attached,
                                          !.id = nSubmitted + 1])
        /\ nSubmitted' = nSubmitted + 1
        /\ lastCall' = [Returned("stopForegroundActivity", c.ch, "void", c.call) EXCEPT
                           !.owner = c.owner, !.fg = c.fg,
                           !.quiet = c.quiet]
        /\ UNCHANGED << managerVars, m_observers, workerVars, futures, nCalls, registryVars >>

\* FocusManager::stopAllActivities, the unlocked m_activeChannels.empty() test
stopAllActivities_check ==
    /\ nCalls' = nCalls + 1
    /\ IF m_activeChannels = {}
       THEN /\ lastCall' = Returned("stopAllActivities", NoChannel, "void", nCalls + 1)
            /\ UNCHANGED callers
       ELSE /\ callers' = callers \cup
                 {[NoCaller EXCEPT !.op = "stopAllCheck", !.call = nCalls + 1]}
            /\ UNCHANGED lastCall
    /\ UNCHANGED << managerVars, m_observers, workerVars, queue, futures, nSubmitted, registryVars >>

\* FocusManager::stopAllActivities, the capture of every active channel and
\* its interface name under the lock
stopAllActivities_capture ==
    \E c \in callers :
        /\ c.op = "stopAllCheck"
        /\ callers' = (callers \ {c}) \cup
              {[c EXCEPT !.op = "stopAll",
                         !.owners = {<< ch, interface[ch] >> : ch \in m_activeChannels},
                         !.attached = attachedNow(m_activeChannels)]}
        /\ UNCHANGED << managerVars, m_observers, workerVars, queue, futures, nCalls, nSubmitted,
                        lastCall, registryVars >>

\* FocusManager::stopAllActivities, m_executor.submitToFront
stopAllActivities_submit ==
    \E c \in callers :
        /\ c.op = "stopAll"
        /\ callers' = callers \ {c}
        /\ queue' = submitToFront(queue, [NoTask EXCEPT !.op = "stopAll", !.owners = c.owners,
                                          !.attached = c.attached,
                                          !.id = nSubmitted + 1])
        /\ nSubmitted' = nSubmitted + 1
        /\ lastCall' = Returned("stopAllActivities", NoChannel, "void", c.call)
        /\ UNCHANGED << managerVars, m_observers, workerVars, futures, nCalls, registryVars >>

\* FocusManager::addObserver
addObserver(g) ==
    /\ nCalls' = nCalls + 1
    /\ m_observers' = m_observers \cup {g}
    /\ lastCall' = Returned("addObserver", NoChannel, "void", nCalls + 1)
    /\ UNCHANGED << managerVars, workerVars, queue, futures, callers, nSubmitted, registryVars >>

\* FocusManager::removeObserver
removeObserver(g) ==
    /\ nCalls' = nCalls + 1
    /\ m_observers' = m_observers \ {g}
    /\ lastCall' = Returned("removeObserver", NoChannel, "void", nCalls + 1)
    /\ UNCHANGED << managerVars, workerVars, queue, futures, callers, nSubmitted, registryVars >>

\* ------------------------------------------------------ the executor worker

FirstStep(task) ==
    CASE task.op = "acquire" -> "acquire_notifyOld"
      [] task.op = "release" -> "release_check"
      [] task.op = "stopForeground" -> "stopForeground_check"
      [] task.op = "stopAll" -> "stopAll_lock"

\* Executor: the worker takes the task at the head of the queue when it has
\* none running.
StartTask ==
    /\ pc = "idle"
    /\ queue # << >>
    /\ cur' = Head(queue)
    /\ queue' = Tail(queue)
    /\ pc' = FirstStep(Head(queue))
    /\ pre' = [focus |-> focus, interface |-> interface, observer |-> observer,
               active |-> m_activeChannels]
    /\ notified' = << >>
    /\ tracked' = << >>
    /\ roundTrip' =
          IF Head(queue).op = "acquire"
          THEN [ch |-> Head(queue).ch, obs |-> Head(queue).obs, before |-> m_activeChannels,
                stage |-> "acquire"]
          ELSE IF /\ Head(queue).op = "release"
                  /\ roundTrip.stage = "acquired"
                  /\ roundTrip.ch = Head(queue).ch
                  /\ roundTrip.obs = Head(queue).obs
          THEN [roundTrip EXCEPT !.stage = "release"]
          ELSE NoRoundTrip
    /\ UNCHANGED << managerVars, m_observers, local, futures, callers, nCalls, nSubmitted, lastCall,
                    calling, delivered, registryVars >>

\* The helper returns: the worker has no task.
TaskReturns ==
    /\ pc' = "idle"
    /\ cur' = NoTask
    /\ local' = NoLocal
    /\ pre' = NoPre
    /\ notified' = << >>
    /\ tracked' = << >>
    /\ roundTrip' = IF cur.op = "acquire" THEN [roundTrip EXCEPT !.stage = "acquired"] ELSE NoRoundTrip
    /\ UNCHANGED << calling, delivered >>

callerVars == << m_observers, queue, callers, nCalls, nSubmitted, lastCall >>

\* FocusManager::setChannelFocus, the section under m_mutex: m_observers is
\* copied, in the order the loop will go through it.
setChannelFocus_lock ==
    /\ pc = "setChannelFocus_lock"
    /\ \E order \in Orders(m_observers) :
          /\ calling' = [calling EXCEPT !.observers = order]
          /\ pc' = IF order = << >> THEN "setChannelFocus_push" ELSE "setChannelFocus_call"
    /\ UNCHANGED << focus, interface, observer, m_activeChannels, m_activityUpdates, cur, roundTrip, local,
                    pre, tracked, notified, delivered, futures, callerVars, registryVars >>

\* FocusManager::setChannelFocus, one turn of the loop over the copy: the
\* next global observer is called back, m_mutex not held.
setChannelFocus_call ==
    /\ pc = "setChannelFocus_call"
    /\ notified' = Append(notified, globalObserverCallback(Head(calling.observers), calling.ch, calling.f))
    /\ calling' = [calling EXCEPT !.observers = Tail(@)]
    /\ pc' = IF Len(calling.observers) = 1 THEN "setChannelFocus_push" ELSE "setChannelFocus_call"
    /\ UNCHANGED << focus, interface, observer, m_activeChannels, m_activityUpdates, cur, roundTrip, local,
                    pre, tracked, delivered, futures, callerVars, registryVars >>

\* FocusManager::setChannelFocus, after the loop: the channel's state is
\* appended to the activity updates, m_mutex not held, and the call returns.
setChannelFocus_push ==
    /\ pc = "setChannelFocus_push"
    /\ m_activityUpdates' = Append(m_activityUpdates, activityRecord(calling.ch, calling.f))
    /\ calling' = NoCalling
    /\ pc' = calling.next
    /\ UNCHANGED << focus, interface, observer, m_activeChannels, cur, roundTrip, local, pre, tracked,
                    notified, delivered, futures, callerVars, registryVars >>

\* FocusManager::foregroundHighestPriorityActiveChannel, the section under
\* m_mutex: the highest-priority active channel is read; the helper goes on
\* at next once the function has returned.
foregroundHighestPriorityActiveChannel(next) ==
    LET channelToForeground == getHighestPriorityActiveChannelLocked(m_activeChannels) IN
    /\ IF channelToForeground # NoChannel
       THEN /\ calling' = [NoCalling EXCEPT !.ch = channelToForeground, !.f = "FOREGROUND", !.next = next]
            /\ pc' = "foreground_setChannelFocus"
       ELSE /\ pc' = next
            /\ UNCHANGED calling
    /\ UNCHANGED << focus, observer, notified, delivered, m_activityUpdates >>

\* FocusManager::foregroundHighestPriorityActiveChannel:
\* setChannelFocus(channelToForeground, FOREGROUND)
foreground_setChannelFocus ==
    /\ pc = "foreground_setChannelFocus"
    /\ setChannelFocus(calling.ch, "FOREGROUND", calling.next)
    /\ UNCHANGED << interface, m_activeChannels, cur, roundTrip, local, pre, tracked, futures, callerVars, registryVars >>

\* FocusManager::notifyActivityTracker as one step, the batch handed to the
\* activity tracker not recorded: only the worker reads and writes
\* m_activityUpdates.
notifyActivityTracker_atOnce ==
    /\ pc = "notifyActivityTracker"
    /\ m_activityUpdates' = << >>
    /\ TaskReturns
    /\ UNCHANGED << focus, interface, observer, m_activeChannels, futures, callerVars, registryVars >>

\* notifyActivityTracker that hands nothing to the activity tracker.
notifyActivityTracker_noDelivery ==
    /\ pc = "notifyActivityTracker"
    /\ pc' = "notifyActivityTracker_clear"
    /\ UNCHANGED << managerVars, cur, roundTrip, local, pre, tracked, notified, calling, delivered, futures, callerVars, registryVars >>

\* FocusManager::notifyActivityTracker in two steps, the first: the batch is
\* handed to the activity tracker when the manager was built with one
notifyActivityTracker ==
    /\ pc = "notifyActivityTracker"
    /\ tracked' = IF m_activityTracker # NoActivityTracker THEN Append(tracked, m_activityUpdates) ELSE tracked
    /\ pc' = "notifyActivityTracker_clear"
    /\ UNCHANGED << managerVars, cur, roundTrip, local, pre, notified, calling, delivered, futures, callerVars, registryVars >>

\* FocusManager::notifyActivityTracker in two steps, the second:
\* m_activityUpdates.clear(), and the helper's return
notifyActivityTracker_clear ==
    /\ pc = "notifyActivityTracker_clear"
    /\ m_activityUpdates' = << >>
    /\ TaskReturns
    /\ UNCHANGED << focus, interface, observer, m_activeChannels, futures, callerVars, registryVars >>

\* acquire_notifyOld that does not tell the previous owner.
acquire_notifyOld_skip ==
    /\ pc = "acquire_notifyOld"
    /\ pc' = "acquire_lock"
    /\ UNCHANGED << focus, observer, notified, calling, delivered, m_activityUpdates >>
    /\ UNCHANGED << interface, m_activeChannels, cur, roundTrip, local, pre, tracked, futures, callerVars,
                    registryVars >>

\* acquireChannelHelper: setChannelFocus(channelToAcquire, NONE)
acquire_notifyOld ==
    /\ pc = "acquire_notifyOld"
    /\ setChannelFocus(cur.ch, "NONE", "acquire_lock")
    /\ UNCHANGED << interface, m_activeChannels, cur, roundTrip, local, pre, tracked, futures, callerVars, registryVars >>

\* acquireChannelHelper: the section under m_mutex
acquire_lock ==
    /\ pc = "acquire_lock"
    /\ local' = [local EXCEPT !.foregroundChannel = getHighestPriorityActiveChannelLocked(m_activeChannels)]
    /\ interface' = [interface EXCEPT ![cur.ch] = cur.iface]
    /\ m_activeChannels' = m_activeChannels \cup {cur.ch}
    /\ pc' = "acquire_setObserver"
    /\ UNCHANGED << focus, observer, m_activityUpdates, cur, roundTrip, pre, tracked, notified, calling, delivered, futures, callerVars, registryVars >>

\* acquire_setObserver that attaches nothing.
acquire_setObserver_skip ==
    /\ pc = "acquire_setObserver"
    /\ pc' = "acquire_resolve"
    /\ UNCHANGED << focus, interface, observer, m_activeChannels, m_activityUpdates, cur, roundTrip, local, pre,
                    tracked, notified, calling, delivered, futures, callerVars, registryVars >>

\* acquireChannelHelper: channelToAcquire->setObserver(channelObserver)
acquire_setObserver ==
    /\ pc = "acquire_setObserver"
    /\ observer' = [observer EXCEPT ![cur.ch] = cur.obs]
    /\ delivered' = deliveredAfterSetObserver(cur.ch)
    /\ pc' = "acquire_resolve"
    /\ UNCHANGED << focus, interface, m_activeChannels, m_activityUpdates, cur, roundTrip, local, pre, tracked,
                    notified, calling, futures, callerVars, registryVars >>

\* acquire_resolve without the demotion of the previous foreground channel.
acquire_resolve_noDemote ==
    /\ pc = "acquire_resolve"
    /\ IF local.foregroundChannel = NoChannel \/ local.foregroundChannel = cur.ch
          \/ Outranks(cur.ch, local.foregroundChannel)
       THEN setChannelFocus(cur.ch, "FOREGROUND", "notifyActivityTracker")
       ELSE setChannelFocus(cur.ch, "BACKGROUND", "notifyActivityTracker")
    /\ UNCHANGED << interface, m_activeChannels, cur, roundTrip, local, pre, tracked, futures, callerVars, registryVars >>

\* acquire_resolve with the priority comparison the wrong way round.
acquire_resolve_reversed ==
    /\ pc = "acquire_resolve"
    /\ IF local.foregroundChannel = NoChannel
       THEN setChannelFocus(cur.ch, "FOREGROUND", "notifyActivityTracker")
       ELSE IF local.foregroundChannel = cur.ch
       THEN setChannelFocus(cur.ch, "FOREGROUND", "notifyActivityTracker")
       ELSE IF Outranks(local.foregroundChannel, cur.ch)
       THEN setChannelFocus(local.foregroundChannel, "BACKGROUND", "acquire_foreground")
       ELSE setChannelFocus(cur.ch, "BACKGROUND", "notifyActivityTracker")
    /\ UNCHANGED << interface, m_activeChannels, cur, roundTrip, local, pre, tracked, futures, callerVars, registryVars >>

\* acquireChannelHelper: the branch on foregroundChannel and its first
\* setChannelFocus
acquire_resolve ==
    /\ pc = "acquire_resolve"
    /\ IF local.foregroundChannel = NoChannel
       THEN setChannelFocus(cur.ch, "FOREGROUND", "notifyActivityTracker")
       ELSE IF local.foregroundChannel = cur.ch
       THEN setChannelFocus(cur.ch, "FOREGROUND", "notifyActivityTracker")
       ELSE IF Outranks(cur.ch, local.foregroundChannel)
       THEN setChannelFocus(local.foregroundChannel, "BACKGROUND", "acquire_foreground")
       ELSE setChannelFocus(cur.ch, "BACKGROUND", "notifyActivityTracker")
    /\ UNCHANGED << interface, m_activeChannels, cur, roundTrip, local, pre, tracked, futures, callerVars, registryVars >>

\* acquireChannelHelper: setChannelFocus(channelToAcquire, FOREGROUND) after
\* the previous foreground channel went to the background
acquire_foreground ==
    /\ pc = "acquire_foreground"
    /\ setChannelFocus(cur.ch, "FOREGROUND", "notifyActivityTracker")
    /\ UNCHANGED << interface, m_activeChannels, cur, roundTrip, local, pre, tracked, futures, callerVars, registryVars >>

\* release_check without the return that follows a failed ownership test.
release_check_noReturn ==
    /\ pc = "release_check"
    /\ futures' = [futures EXCEPT ![cur.fut].val =
                      IF doesObserverOwnChannel(cur.ch, cur.obs) THEN "true" ELSE "false"]
    /\ pc' = "release_lock"
    /\ UNCHANGED << cur, roundTrip, local, pre, tracked, notified, calling, delivered >>
    /\ UNCHANGED << managerVars, callerVars, registryVars >>

\* release_check that returns without a value for the promise when the
\* ownership test fails.
release_check_noSetValue ==
    /\ pc = "release_check"
    /\ IF ~doesObserverOwnChannel(cur.ch, cur.obs)
       THEN /\ UNCHANGED futures
            /\ TaskReturns
       ELSE /\ futures' = [futures EXCEPT ![cur.fut].val = "true"]
            /\ pc' = "release_lock"
            /\ UNCHANGED << cur, roundTrip, local, pre, tracked, notified, calling, delivered >>
    /\ UNCHANGED << managerVars, callerVars, registryVars >>

\* releaseChannelHelper: the ownership test and the promise
release_check ==
    /\ pc = "release_check"
    /\ IF ~doesObserverOwnChannel(cur.ch, cur.obs)
       THEN /\ futures' = [futures EXCEPT ![cur.fut].val = "false"]
            /\ TaskReturns
       ELSE /\ futures' = [futures EXCEPT ![cur.fut].val = "true"]
            /\ pc' = "release_lock"
            /\ UNCHANGED << cur, roundTrip, local, pre, tracked, notified, calling, delivered >>
    /\ UNCHANGED << managerVars, callerVars, registryVars >>

\* release_lock that leaves the channel in the active set.
release_lock_noErase ==
    /\ pc = "release_lock"
    /\ local' = [local EXCEPT !.wasForegrounded = isChannelForegroundedLocked(m_activeChannels, cur.ch)]
    /\ pc' = "release_setNone"
    /\ UNCHANGED << focus, interface, observer, m_activeChannels, m_activityUpdates, cur, roundTrip,
                    pre, tracked, notified, calling, delivered, futures, callerVars, registryVars >>

\* releaseChannelHelper: the section under m_mutex
release_lock ==
    /\ pc = "release_lock"
    /\ local' = [local EXCEPT !.wasForegrounded = isChannelForegroundedLocked(m_activeChannels, cur.ch)]
    /\ m_activeChannels' = m_activeChannels \ {cur.ch}
    /\ pc' = "release_setNone"
    /\ UNCHANGED << focus, interface, observer, m_activityUpdates, cur, roundTrip, pre, tracked, notified, calling, delivered, futures,
                    callerVars, registryVars >>

\* release_setNone that never goes on to foreground the next channel.
release_setNone_noPromote ==
    /\ pc = "release_setNone"
    /\ setChannelFocus(cur.ch, "NONE", "notifyActivityTracker")
    /\ UNCHANGED << interface, m_activeChannels, cur, roundTrip, local, pre, tracked, futures, callerVars, registryVars >>

\* release_setNone that sends the released channel to the background.
release_setNone_background ==
    /\ pc = "release_setNone"
    /\ setChannelFocus(cur.ch, "BACKGROUND", IF local.wasForegrounded THEN "release_foreground" ELSE "notifyActivityTracker")
    /\ UNCHANGED << interface, m_activeChannels, cur, roundTrip, local, pre, tracked, futures, callerVars, registryVars >>

\* releaseChannelHelper: setChannelFocus(channelToRelease, NONE)
release_setNone ==
    /\ pc = "release_setNone"
    /\ setChannelFocus(cur.ch, "NONE", IF local.wasForegrounded THEN "release_foreground" ELSE "notifyActivityTracker")
    /\ UNCHANGED << interface, m_activeChannels, cur, roundTrip, local, pre, tracked, futures, callerVars, registryVars >>

\* releaseChannelHelper: foregroundHighestPriorityActiveChannel()
release_foreground ==
    /\ pc = "release_foreground"
    /\ foregroundHighestPriorityActiveChannel("notifyActivityTracker")
    /\ UNCHANGED << interface, m_activeChannels, cur, roundTrip, local, pre, tracked, futures, callerVars, registryVars >>

\* stopForeground_check without the test of the interface name.
stopForeground_check_noInterfaceTest ==
    /\ pc = "stopForeground_check"
    /\ IF ~hasObserver(cur.ch)
       THEN TaskReturns
       ELSE pc' = "stopForeground_setNone" /\ UNCHANGED << cur, roundTrip, local, pre, tracked, notified, calling, delivered >>
    /\ UNCHANGED << managerVars, futures, callerVars, registryVars >>

\* stopForeground_check without the test of the observer.
stopForeground_check_noObserverTest ==
    /\ pc = "stopForeground_check"
    /\ IF cur.iface # interface[cur.ch]
       THEN TaskReturns
       ELSE pc' = "stopForeground_setNone" /\ UNCHANGED << cur, roundTrip, local, pre, tracked, notified, calling, delivered >>
    /\ UNCHANGED << managerVars, futures, callerVars, registryVars >>

\* stopForegroundActivityHelper: the two tests on the snapshot
stopForeground_check ==
    /\ pc = "stopForeground_check"
    /\ IF cur.iface # interface[cur.ch]
       THEN TaskReturns
       ELSE IF ~hasObserver(cur.ch)
       THEN TaskReturns
       ELSE pc' = "stopForeground_setNone" /\ UNCHANGED << cur, roundTrip, local, pre, tracked, notified, calling, delivered >>
    /\ UNCHANGED << managerVars, futures, callerVars, registryVars >>

\* stopForeground_setNone that leaves the channel's focus as it is.
stopForeground_setNone_skip ==
    /\ pc = "stopForeground_setNone"
    /\ pc' = "stopForeground_lock"
    /\ UNCHANGED << focus, observer, notified, calling, delivered, m_activityUpdates >>
    /\ UNCHANGED << interface, m_activeChannels, cur, roundTrip, local, pre, tracked, futures, callerVars, registryVars >>

\* stopForegroundActivityHelper: setChannelFocus(foregroundChannel, NONE)
stopForeground_setNone ==
    /\ pc = "stopForeground_setNone"
    /\ setChannelFocus(cur.ch, "NONE", "stopForeground_lock")
    /\ UNCHANGED << interface, m_activeChannels, cur, roundTrip, local, pre, tracked, futures, callerVars, registryVars >>

\* stopForegroundActivityHelper: the section under m_mutex
stopForeground_lock ==
    /\ pc = "stopForeground_lock"
    /\ m_activeChannels' = m_activeChannels \ {cur.ch}
    /\ pc' = "stopForeground_foreground"
    /\ UNCHANGED << focus, interface, observer, m_activityUpdates, cur, roundTrip, local, pre, tracked, notified, calling, delivered,
                    futures, callerVars, registryVars >>

\* stopForegroundActivityHelper: foregroundHighestPriorityActiveChannel()
stopForeground_foreground ==
    /\ pc = "stopForeground_foreground"
    /\ foregroundHighestPriorityActiveChannel("notifyActivityTracker")
    /\ UNCHANGED << interface, m_activeChannels, cur, roundTrip, local, pre, tracked, futures, callerVars, registryVars >>

\* stillOwned that lets every captured channel pass.
stillOwned_all(owners) == {p[1] : p \in owners}

\* stopAllActivitiesHelper: the channels whose interface name is still the
\* captured one
stillOwned(owners) == {p[1] : p \in {q \in owners : interface[q[1]] = q[2]}}

\* stopAll_lock that erases every captured channel, whatever its interface name.
stopAll_lock_noInterfaceTest ==
    /\ pc = "stopAll_lock"
    /\ m_activeChannels' = m_activeChannels \ {p[1] : p \in cur.owners}
    /\ local' = [local EXCEPT !.channelsToClear = {p[1] : p \in cur.owners}]
    /\ pc' = "stopAll_clear"
    /\ UNCHANGED << focus, interface, observer, m_activityUpdates, cur, roundTrip, pre, tracked, notified, calling, delivered, futures,
                    callerVars, registryVars >>

\* stopAllActivitiesHelper: the loop under m_mutex
stopAll_lock ==
    /\ pc = "stopAll_lock"
    /\ m_activeChannels' = m_activeChannels \ stillOwned(cur.owners)
    /\ local' = [local EXCEPT !.channelsToClear = stillOwned(cur.owners)]
    /\ pc' = "stopAll_clear"
    /\ UNCHANGED << focus, interface, observer, m_activityUpdates, cur, roundTrip, pre, tracked, notified, calling, delivered, futures,
                    callerVars, registryVars >>

\* stopAllActivitiesHelper: setChannelFocus(channel, NONE) for the next
\* channel of channelsToClear (a set ordered by address: any order), then
\* foregroundHighestPriorityActiveChannel() once none is left
stopAll_clear ==
    /\ pc = "stopAll_clear"
    /\ IF local.channelsToClear # {}
       THEN \E ch \in local.channelsToClear :
               /\ setChannelFocus(ch, "NONE", "stopAll_clear")
               /\ local' = [local EXCEPT !.channelsToClear = @ \ {ch}]
       ELSE /\ foregroundHighestPriorityActiveChannel("notifyActivityTracker")
            /\ UNCHANGED local
    /\ UNCHANGED << interface, m_activeChannels, cur, roundTrip, pre, tracked, futures, callerVars, registryVars >>

\* ------------------------------------------------------------ specification

\* acquireChannel and releaseChannel, by callers that pass the names and the
\* observers of the given sets; at most max public calls are made.
BeginNormal(names, observers, max) ==
    /\ nCalls < max
    /\ \/ \E n \in names, o \in observers, i \in Interfaces : acquireChannel(n, o, i)
       \/ \E n \in names, o \in observers : releaseChannel(n, o)

\* stopForegroundActivity, from its snapshot to its submit.
StopForeground(max) ==
    \/ nCalls < max /\ stopForegroundActivity_snapshot
    \/ stopForegroundActivity_submit

\* stopAllActivities, from its test to its submit.
StopAll(max) ==
    \/ nCalls < max /\ stopAllActivities_check
    \/ stopAllActivities_capture
    \/ stopAllActivities_submit

\* The registration of global observers.
Register(observers, max) ==
    /\ nCalls < max
    /\ \/ \E g \in observers : addObserver(g)
       \/ \E g \in observers : removeObserver(g)

Steps ==
    \/ StartTask
    \/ setChannelFocus_lock
    \/ setChannelFocus_push
    \/ foreground_setChannelFocus
    \/ acquire_notifyOld
    \/ acquire_lock
    \/ acquire_setObserver
    \/ acquire_resolve
    \/ acquire_foreground
    \/ release_check
    \/ release_lock
    \/ release_setNone
    \/ release_foreground
    \/ stopForeground_check
    \/ stopForeground_setNone
    \/ stopForeground_lock
    \/ stopForeground_foreground

\* The worker's steps, the flush of the activity updates taken at once.
Work ==
    \/ Steps
    \/ notifyActivityTracker_atOnce

\* The worker's steps, the flush of the activity updates taken in two steps
\* that record what the activity tracker is handed.
WorkRecorded ==
    \/ Steps
    \/ setChannelFocus_call
    \/ notifyActivityTracker
    \/ notifyActivityTracker_clear

WorkStopAll ==
    \/ stopAll_lock
    \/ stopAll_clear

Next ==
    \/ BeginNormal(Channels, Observers, MaxOps)
    \/ StopForeground(MaxOps)
    \/ StopAll(MaxOps)
    \/ Work
    \/ WorkStopAll

Spec == Init /\ [][Next]_vars

\* The same program driven longer by fewer inputs: two of the channels, one
\* observer, and callers that make no stopAllActivities call.
DeepNames == {"Dialog", "Content"}
DeepObservers == {"o1"}

NextDeep ==
    \/ BeginNormal(DeepNames, DeepObservers, MaxOpsDeep)
    \/ StopForeground(MaxOpsDeep)
    \/ Work

SpecDeep == Init /\ [][NextDeep]_vars

\* The same program under every kind of call: two of the channels, a name
\* that is not registered, and one global observer that comes and goes.  This
\* specification records what the activity tracker is handed.
OneGlobalObserver == {"g1"}

NextAllCalls ==
    \/ BeginNormal(DeepNames \cup {UnknownName}, Observers, MaxOps)
    \/ StopForeground(MaxOps)
    \/ StopAll(MaxOps)
    \/ Register(OneGlobalObserver, MaxOps)
    \/ WorkRecorded
    \/ WorkStopAll

SpecAllCalls == Init /\ [][NextAllCalls]_vars

\* The same program with its collaborators varied: built with or without an
\* activity tracker, and with two global observers that come and go while the
\* worker is inside a setChannelFocus call.  Two of the channels, one channel
\* observer, both kinds of stop call.
NextCollaborators ==
    \/ BeginNormal(DeepNames, DeepObservers, MaxOps)
    \/ StopForeground(MaxOps)
    \/ StopAll(MaxOps)
    \/ Register(GlobalObservers, MaxOps)
    \/ WorkRecorded
    \/ WorkStopAll

SpecCollaborators == InitAnyTracker /\ [][NextCollaborators]_vars

\* The same program on two of the channels with both observers and both
\* kinds of stop call, keeping the history of the channel observers'
\* callbacks and of the stop calls' snapshots.
NextHistory ==
    \/ BeginNormal(DeepNames, Observers, MaxOps)
    \/ StopForeground(MaxOps)
    \/ StopAll(MaxOps)
    \/ Work
    \/ WorkStopAll

SpecHistory == InitHistory /\ [][NextHistory]_vars

\* The same program with the executor's worker thread scheduled fairly: as
\* long as a task is queued or running, the worker takes its next step.  Two
\* of the channels, one observer, one interface name, no stopAllActivities
\* call; at most MaxOpsLive public calls, hence finitely many stop tasks.
LiveInterface == "i1"

BeginLive ==
    /\ nCalls < MaxOpsLive
    /\ \/ \E n \in DeepNames, o \in DeepObservers : acquireChannel(n, o, LiveInterface)
       \/ \E n \in DeepNames, o \in DeepObservers : releaseChannel(n, o)

NextLive ==
    \/ BeginLive
    \/ StopForeground(MaxOpsLive)
    \/ Work

SpecLive == Init /\ [][NextLive]_vars /\ WF_vars(Work)

\* The constructor alone, on every list of at most MaxConfigs entries.
NextConstruct == createChannel

SpecConstruct == InitConstruct /\ [][NextConstruct]_vars

\* ------------------------------------------------------------------ claims

\* The step in which the running task of kind op returns.
TaskEnds(op) == cur.op = op /\ cur' = NoTask

\* The channel in the foreground by the focus states f, if any.
ForegroundOf(f) ==
    IF \E c \in Channels : f[c] = "FOREGROUND"
    THEN CHOOSE c \in Channels : f[c] = "FOREGROUND"
    ELSE NoChannel

\* The focus state the active set gives channel c.
FocusByActiveSet(active, c) ==
    IF c \notin active THEN "NONE"
    ELSE IF c = getHighestPriorityActiveChannelLocked(active) THEN "FOREGROUND"
    ELSE "BACKGROUND"

\* C1: whenever the worker has no task running, every channel's focus state is
\* the one its place in the active set gives it: the highest-priority active
\* channel is FOREGROUND and the only one, the other active channels are
\* BACKGROUND, the channels that are not active are NONE.
C1_FocusFollowsActiveSet ==
    pc = "idle" =>
        /\ \A c \in Channels : focus[c] = FocusByActiveSet(m_activeChannels, c)
        /\ Cardinality({c \in Channels : focus[c] = "FOREGROUND"}) <= 1

\* Every submitted task has run and two channels are active: one is in the
\* foreground, the other in the background.
C1_Witness ==
    /\ pc = "idle"
    /\ queue = << >>
    /\ nSubmitted >= 2
    /\ \E c, d \in m_activeChannels : focus[c] = "FOREGROUND" /\ focus[d] = "BACKGROUND"

\* C2: when an acquire task on T returns, T has the interface name and the
\* observer of the request; with F the foreground channel at the task's start:
\* T is FOREGROUND if there was no F or F is T; F is BACKGROUND and T
\* FOREGROUND if T outranks F; T is BACKGROUND and F is as it was if F
\* outranks T.
C2_AcquireOutcome ==
    [][TaskEnds("acquire") =>
        LET T == cur.ch
            F == ForegroundOf(pre.focus)
        IN /\ interface'[T] = cur.iface
           /\ observer'[T] = cur.obs
           /\ (F = NoChannel \/ F = T) => focus'[T] = "FOREGROUND"
           /\ (F # NoChannel /\ F # T /\ getPriority(T) < getPriority(F)) =>
                 focus'[F] = "BACKGROUND" /\ focus'[T] = "FOREGROUND"
           /\ (F # NoChannel /\ F # T /\ getPriority(T) > getPriority(F)) =>
                 /\ focus'[T] = "BACKGROUND"
                 /\ focus'[F] = pre.focus[F]
                 /\ interface'[F] = pre.interface[F]
                 /\ observer'[F] = pre.observer[F]
    ]_vars

\* An acquire task is about to return after it preempted the foreground
\* channel.
C2_Witness ==
    /\ cur.op = "acquire"
    /\ pc = "notifyActivityTracker"
    /\ ForegroundOf(pre.focus) \notin {NoChannel, cur.ch}
    /\ getPriority(cur.ch) < getPriority(ForegroundOf(pre.focus))
    /\ focus[ForegroundOf(pre.focus)] = "BACKGROUND"
    /\ focus[cur.ch] = "FOREGROUND"

\* C3: when a release task that succeeded returns: if its channel was
\* FOREGROUND at the task's start, the channel is NONE and not active, the
\* highest-priority channel still active (if any) is FOREGROUND, and no channel
\* is FOREGROUND if none is active; if its channel was not FOREGROUND, every
\* other channel has the focus state it had.
C3_ReleaseOutcome ==
    [][(TaskEnds("release") /\ futures[cur.fut].val = "true") =>
        LET T == cur.ch
            top == getHighestPriorityActiveChannelLocked(m_activeChannels')
        IN IF pre.focus[T] = "FOREGROUND"
           THEN /\ focus'[T] = "NONE"
                /\ T \notin m_activeChannels'
                /\ top # NoChannel => focus'[top] = "FOREGROUND"
                /\ m_activeChannels' = {} => \A c \in Channels : focus'[c] # "FOREGROUND"
           ELSE \A c \in Channels \ {T} : focus'[c] = pre.focus[c]
    ]_vars

\* A release task of the foreground channel is about to return and a channel
\* that was in the background has been brought to the foreground.
C3_Witness ==
    /\ cur.op = "release"
    /\ pc = "notifyActivityTracker"
    /\ pre.focus[cur.ch] = "FOREGROUND"
    /\ \E c \in m_activeChannels : pre.focus[c] = "BACKGROUND" /\ focus[c] = "FOREGROUND"

\* C4: a release task whose observer is not the one attached to its channel
\* resolves its future to false and returns at once: focus states, interface
\* names, observers, the active set and the activity batch are as they were,
\* and the task has made no observer callback.
C4_UnauthorizedRelease ==
    [][(pc = "release_check" /\ pc' # pc /\ cur.obs # observer[cur.ch]) =>
        /\ futures'[cur.fut].val = "false"
        /\ cur' = NoTask
        /\ UNCHANGED << focus, interface, observer, m_activeChannels, m_activityUpdates >>
        /\ notified = << >> /\ notified' = << >>
        /\ pre = [focus |-> focus, interface |-> interface, observer |-> observer,
                  active |-> m_activeChannels]
    ]_vars

\* A release of a registered channel has been refused while another observer
\* holds the channel.
C4_Witness ==
    \E k \in DOMAIN futures :
        /\ futures[k].val = "false"
        /\ futures[k].ch \in Channels
        /\ observer[futures[k].ch] \notin {NoObserver, futures[k].obs}
        /\ futures[k].ch \in m_activeChannels

\* C5: acquireChannel with a name that is not registered returns false, and
\* releaseChannel with such a name returns a future that is already false;
\* neither queues a task nor changes a channel or the active set.
\* acquireChannel with a registered name returns true and appends one acquire
\* task to the back of the queue.
C5_UnknownChannel ==
    [][(lastCall'.n # lastCall.n) =>
        /\ (lastCall'.op = "acquireChannel" /\ lastCall'.name \notin Channels) =>
              /\ lastCall'.ret = "false"
              /\ UNCHANGED << queue, focus, interface, observer, m_activeChannels, futures >>
        /\ (lastCall'.op = "acquireChannel" /\ lastCall'.name \in Channels) =>
              /\ lastCall'.ret = "true"
              /\ Len(queue') = Len(queue) + 1
              /\ SubSeq(queue', 1, Len(queue)) = queue
              /\ queue'[Len(queue')].op = "acquire"
              /\ queue'[Len(queue')].ch = lastCall'.name
              /\ UNCHANGED << focus, interface, observer, m_activeChannels >>
        /\ (lastCall'.op = "releaseChannel" /\ lastCall'.name \notin Channels) =>
              /\ lastCall'.ret = "future:false"
              /\ Len(futures') = Len(futures) + 1
              /\ futures'[Len(futures')].val = "false"
              /\ UNCHANGED << queue, focus, interface, observer, m_activeChannels >>
    ]_vars

\* acquireChannel has just returned false for an unregistered name while a
\* channel is held and a task is queued.
C5_Witness ==
    /\ lastCall.op = "acquireChannel"
    /\ lastCall.name \notin Channels
    /\ lastCall.ret = "false"
    /\ m_activeChannels # {}
    /\ queue # << >>

\* The lanes of the queue: stop tasks are urgent, the others normal.
IsUrgent(task) == task.op \in {"stopForeground", "stopAll"}
IsNormal(task) == task.op \in {"acquire", "release"}
SameLane(t, u) == IsUrgent(t) = IsUrgent(u)

\* The step in which the worker starts a task.
TaskStarts == cur = NoTask /\ cur' # NoTask

\* C6 as claimed: when the worker starts a task, every task of the same lane
\* that is still queued was submitted after it.
C6_SameLaneInSubmissionOrder ==
    [][TaskStarts =>
        \A i \in DOMAIN queue' : SameLane(queue'[i], cur') => queue'[i].id > cur'.id
    ]_vars

\* C6 as amended: when the worker starts an acquire or release task, every
\* acquire or release task still queued was submitted after it; when it starts
\* a stop task, every stop task still queued was submitted before it.
C6_NormalFifoUrgentLifo ==
    [][TaskStarts =>
        \A i \in DOMAIN queue' :
            /\ (IsNormal(cur') /\ IsNormal(queue'[i])) => queue'[i].id > cur'.id
            /\ (IsUrgent(cur') /\ IsUrgent(queue'[i])) => queue'[i].id < cur'.id
    ]_vars

\* A stop task runs while a stop task submitted before it is still queued.
C6_Witness ==
    /\ IsUrgent(cur)
    /\ \E i \in DOMAIN queue : IsUrgent(queue[i]) /\ queue[i].id < cur.id

\* C7: the worker starts a task only when it has none running, and the task is
\* the head of the queue; when it starts an acquire or release task no stop
\* task is waiting; and channels, the active set, the activity batch and the
\* promises change only in steps of the running task, which stays the running
\* task or returns.
C7_StopsFirstWithoutPreemption ==
    [][/\ cur' # cur =>
             \/ cur' = NoTask /\ pc' = "idle"
             \/ cur = NoTask /\ pc = "idle" /\ cur' = Head(queue) /\ queue' = Tail(queue)
       /\ (TaskStarts /\ IsNormal(cur')) => \A i \in DOMAIN queue' : ~IsUrgent(queue'[i])
       /\ (\/ << focus, interface, observer, m_activeChannels, m_activityUpdates >>' #
                 << focus, interface, observer, m_activeChannels, m_activityUpdates >>
           \/ \E k \in DOMAIN futures : futures'[k] # futures[k]) =>
             cur # NoTask /\ cur' \in {cur, NoTask}
    ]_vars

\* A stop task runs ahead of an acquire or release task that was submitted
\* before it, after the task that ran when it was submitted has returned.
C7_Witness ==
    /\ IsUrgent(cur)
    /\ \E i \in DOMAIN queue : IsNormal(queue[i]) /\ queue[i].id < cur.id
    /\ m_activeChannels # {}

\* C8 as claimed: a releaseChannel(C, O) call that comes right after a
\* stopForegroundActivity call that found C in the foreground and owned by O
\* never has its future resolved to true.
C8_ReleaseAfterStopFails ==
    \A k \in DOMAIN futures : futures[k].afterStop => futures[k].val # "true"

\* C8 as amended: the same when no acquire task of C for O was queued or
\* running at the stop call's snapshot and none was submitted before the stop
\* task was.
C8_ReleaseAfterQuietStopFails ==
    \A k \in DOMAIN futures :
        (futures[k].afterStop /\ futures[k].quiet) => futures[k].val # "true"

\* Such a release has been refused.
C8_Witness ==
    \E k \in DOMAIN futures :
        futures[k].afterStop /\ futures[k].quiet /\ futures[k].val = "false"

\* C9 as claimed: when the release task of (A, obs) that directly follows the
\* acquire task of (A, obs) returns, the active set is the one the acquire
\* task started from.
C9_RoundTrip ==
    [][(TaskEnds("release") /\ roundTrip.stage = "release") =>
        m_activeChannels' = roundTrip.before
    ]_vars

\* C9 as amended: the active set is the one the acquire task started from
\* without A; it is that set unchanged when A was not in it.
C9_RoundTripRemovesChannel ==
    [][(TaskEnds("release") /\ roundTrip.stage = "release") =>
        /\ m_activeChannels' = roundTrip.before \ {roundTrip.ch}
        /\ roundTrip.ch \notin roundTrip.before => m_activeChannels' = roundTrip.before
    ]_vars

\* The release task of a round trip is about to return; the channel was not
\* active before the acquire, another channel was, and the active set is back
\* to what it was.
C9_Witness ==
    /\ cur.op = "release"
    /\ pc = "notifyActivityTracker"
    /\ roundTrip.stage = "release"
    /\ roundTrip.ch \notin roundTrip.before
    /\ roundTrip.before # {}
    /\ m_activeChannels = roundTrip.before

\* C10: a stopForegroundActivity task whose snapshotted interface name is not
\* the channel's current one, or whose channel has no observer, returns at
\* once: focus states, interface names, observers, the active set and the
\* activity batch are as they were when the task started, and the task has made
\* no observer callback.  A stopForegroundActivity call made when no channel
\* is active queues nothing and leaves no call in progress.
C10_StaleStopForeground ==
    [][/\ (/\ pc = "stopForeground_check" /\ pc' # pc
           /\ (cur.iface # interface[cur.ch] \/ observer[cur.ch] = NoObserver)) =>
             /\ cur' = NoTask
             /\ UNCHANGED << focus, interface, observer, m_activeChannels, m_activityUpdates >>
             /\ notified = << >> /\ notified' = << >>
             /\ pre = [focus |-> focus, interface |-> interface, observer |-> observer,
                       active |-> m_activeChannels]
       /\ (/\ nCalls' # nCalls
           /\ m_activeChannels = {}
           /\ \/ lastCall'.op = "stopForegroundActivity" /\ lastCall'.n = nCalls'
              \/ \E c \in callers' : c.op = "stopForeground" /\ c.call = nCalls') =>
             UNCHANGED << queue, callers, nSubmitted >>
    ]_vars

\* A stopForegroundActivity task is about to test a snapshot whose interface
\* name is no longer that of the channel, which is active and has an observer.
C10_Witness ==
    /\ pc = "stopForeground_check"
    /\ cur.iface # interface[cur.ch]
    /\ observer[cur.ch] # NoObserver
    /\ cur.ch \in m_activeChannels

\* The captured channels whose interface name at the task's start is the
\* captured one.
MatchingAtStart(owners) == {p[1] : p \in {q \in owners : pre.interface[q[1]] = q[2]}}

\* C11: when a stopAllActivities task returns, the captured channels whose
\* interface name was still the captured one are NONE and not active; every
\* other channel is active iff it was when the task started and has the
\* interface name and the observer it had; and the highest-priority channel
\* still active, if any, is FOREGROUND.
C11_StopAllClearsMatching ==
    [][TaskEnds("stopAll") =>
        LET cleared == MatchingAtStart(cur.owners)
            top == getHighestPriorityActiveChannelLocked(m_activeChannels')
        IN /\ \A c \in cleared : focus'[c] = "NONE" /\ c \notin m_activeChannels'
           /\ \A c \in Channels \ cleared :
                 /\ (c \in m_activeChannels') = (c \in pre.active)
                 /\ interface'[c] = pre.interface[c]
                 /\ observer'[c] = pre.observer[c]
           /\ top # NoChannel => focus'[top] = "FOREGROUND"
    ]_vars

\* A stopAllActivities task is about to return; it has left alone a captured
\* channel whose interface name had changed, which is still active, owned and
\* in the foreground.
C11_Witness ==
    /\ cur.op = "stopAll"
    /\ pc = "notifyActivityTracker"
    /\ \E p \in cur.owners :
          /\ interface[p[1]] # p[2]
          /\ p[1] \in m_activeChannels
          /\ observer[p[1]] # NoObserver
          /\ focus[p[1]] = "FOREGROUND"

\* The step in which the running task, whatever its kind, returns.
AnyTaskEnds == cur # NoTask /\ cur' = NoTask

\* The running task is a release by an observer that did not own the channel,
\* or a stopForegroundActivity task whose snapshot was stale when it started.
ReturnsEarly ==
    \/ cur.op = "release" /\ cur.obs # pre.observer[cur.ch]
    \/ cur.op = "stopForeground" /\
          (cur.iface # pre.interface[cur.ch] \/ pre.observer[cur.ch] = NoObserver)

\* C12 as claimed: when a task returns, it has handed the pending batch to the
\* activity tracker exactly once, and the batch is then empty.
C12_EveryTaskFlushes ==
    [][AnyTaskEnds => (tracked = << m_activityUpdates >> /\ m_activityUpdates' = << >>)]_vars

\* What a task that reaches notifyActivityTracker has handed to the activity
\* tracker: the pending batch, once, when the manager was built with a
\* tracker; nothing when it was built without one.
HandedOver ==
    IF m_activityTracker # NoActivityTracker THEN << m_activityUpdates >> ELSE << >>

\* C12 as amended: every task but a release by an observer that does not own
\* the channel and a stopForegroundActivity task whose snapshot is stale ends
\* by handing the pending batch to the activity tracker exactly once, when
\* the manager has one, and then clearing it; without a tracker the batch is
\* cleared and handed to nobody.  The two excepted tasks return without
\* handing anything to the tracker, and the batch is empty before and after.
C12_TasksFlushUnlessReturnedEarly ==
    [][AnyTaskEnds =>
        IF ReturnsEarly
        THEN tracked = << >> /\ m_activityUpdates = << >> /\ m_activityUpdates' = << >>
        ELSE tracked = HandedOver /\ m_activityUpdates' = << >>
    ]_vars

\* A stopForegroundActivity task has handed the tracker a batch of two records
\* (the stopped channel and the channel promoted in its place) and is about to
\* clear it and return.
C12_Witness ==
    /\ cur.op = "stopForeground"
    /\ pc = "notifyActivityTracker_clear"
    /\ tracked = << m_activityUpdates >>
    /\ Len(m_activityUpdates) = 2

\* The channels whose focus state changes in the step.
Changed == {c \in Channels : focus'[c] # focus[c]}

\* The callbacks of a log to channel observers, as (channel, state) pairs.
RECURSIVE ChannelChanges(_)
ChannelChanges(log) ==
    IF log = << >> THEN << >>
    ELSE (IF Head(log).to \in Observers THEN << << Head(log).ch, Head(log).state >> >> ELSE << >>)
         \o ChannelChanges(Tail(log))

\* The worker is inside a setChannelFocus call, past Channel::setFocus.
InSetChannelFocus(at) ==
    at \in {"setChannelFocus_lock", "setChannelFocus_call", "setChannelFocus_push"}

\* C13: an application that changes no channel's focus state makes no
\* callback and appends no activity record: a step of a running task that
\* changes no focus state and is not inside a setChannelFocus call leaves the
\* callbacks and the batch as they are and enters no such call.  An
\* application that changes the state changes it for one channel, calls the
\* channel's attached observer once with the new state, then calls each
\* global observer of its copy of m_observers once, in the copy's order, and
\* then, in a step of its own, appends one activity record of the channel,
\* its new state and its interface name.  And the batch the task hands to the tracker has one
\* record per focus change the task made, in order.
C13_NotifyOnChangeOnly ==
    [][/\ (focus' = focus /\ cur # NoTask /\ cur' = cur /\ ~InSetChannelFocus(pc)
           /\ pc # "notifyActivityTracker_clear") =>
             /\ notified' = notified /\ m_activityUpdates' = m_activityUpdates
             /\ ~InSetChannelFocus(pc')
       /\ focus' # focus =>
             \E c \in Changed :
                /\ Changed = {c}
                /\ ~InSetChannelFocus(pc) /\ pc' = "setChannelFocus_lock"
                /\ calling'.ch = c /\ calling'.f = focus'[c]
                /\ notified' = notified \o
                      (IF observer[c] # NoObserver
                       THEN << [to |-> observer[c], ch |-> c, state |-> focus'[c]] >> ELSE << >>)
                /\ m_activityUpdates' = m_activityUpdates
       /\ (pc' = "setChannelFocus_lock" /\ pc # pc') => focus' # focus
       /\ (pc = "setChannelFocus_lock" /\ pc' # pc) =>
             /\ notified' = notified
             /\ m_activityUpdates' = m_activityUpdates
             /\ calling'.observers \in Orders(m_observers)
             /\ pc' = IF m_observers = {} THEN "setChannelFocus_push" ELSE "setChannelFocus_call"
       /\ (pc = "setChannelFocus_call" /\ <<pc, calling>>' # <<pc, calling>>) =>
             /\ notified' = Append(notified, [to |-> Head(calling.observers), ch |-> calling.ch,
                                              state |-> focus[calling.ch]])
             /\ m_activityUpdates' = m_activityUpdates
             /\ calling'.observers = Tail(calling.observers)
             /\ pc' = IF Len(calling.observers) = 1 THEN "setChannelFocus_push" ELSE pc
       /\ (pc = "setChannelFocus_push" /\ pc' # pc) =>
             /\ calling.observers = << >>
             /\ notified' = notified
             /\ pc' = calling.next
             /\ m_activityUpdates' =
                   Append(m_activityUpdates,
                          [name |-> calling.ch, focusState |-> focus[calling.ch],
                           interfaceName |-> interface[calling.ch]])
       /\ (InSetChannelFocus(pc) /\ ~InSetChannelFocus(pc')) => pc = "setChannelFocus_push"
       /\ (pc = "notifyActivityTracker" /\ pc' # pc) =>
             /\ tracked' = HandedOver
             /\ [i \in DOMAIN m_activityUpdates |->
                    << m_activityUpdates[i].name, m_activityUpdates[i].focusState >>]
                = ChannelChanges(notified)
    ]_vars

\* A task that changed the focus state of one channel while two global
\* observers were registered has handed the tracker a batch of one record;
\* the change was told once to the channel's observer, then once to each
\* global observer, to g2 before g1.
C13_Witness ==
    /\ pc = "notifyActivityTracker_clear"
    /\ m_observers = GlobalObservers
    /\ tracked = << m_activityUpdates >>
    /\ Len(m_activityUpdates) = 1
    /\ Len(notified) = 3
    /\ notified[1].to \in Observers
    /\ notified[2].to = "g2" /\ notified[3].to = "g1"

\* The channels the returning task released or stopped: the channel of a
\* release that succeeded, the channel of a stopForegroundActivity task that
\* passed its tests, the channels a stopAllActivities task cleared.
Vacated ==
    IF cur.op = "release" /\ cur.obs = pre.observer[cur.ch] THEN {cur.ch}
    ELSE IF cur.op = "stopForeground" /\ ~ReturnsEarly THEN {cur.ch}
    ELSE IF cur.op = "stopAll" THEN MatchingAtStart(cur.owners)
    ELSE {}

\* Focus states, interface names, observers and the active set change only in
\* steps of the running task, never in a step of a public call.
OnlyTheWorkerWrites ==
    << focus, interface, observer, m_activeChannels >>' # << focus, interface, observer, m_activeChannels >> =>
        /\ cur # NoTask
        /\ UNCHANGED << queue, callers, nCalls, nSubmitted, lastCall, m_observers >>

\* C14 as claimed: only the worker writes channel state and the active set;
\* and when a task returns, every channel it released or stopped is NONE, has
\* no observer and has no interface name.
C14_ResetToUnowned ==
    [][/\ OnlyTheWorkerWrites
       /\ AnyTaskEnds =>
             \A c \in Vacated :
                /\ focus'[c] = "NONE"
                /\ observer'[c] = NoObserver
                /\ interface'[c] = NoInterface
    ]_vars

\* C14 as amended: only the worker writes channel state and the active set;
\* and when a task returns, every channel it released or stopped is NONE and
\* has no observer, and has the interface name it had when the task started.
C14_ObserverResetInterfaceKept ==
    [][/\ OnlyTheWorkerWrites
       /\ AnyTaskEnds =>
             \A c \in Vacated :
                /\ focus'[c] = "NONE"
                /\ observer'[c] = NoObserver
                /\ interface'[c] = pre.interface[c]
    ]_vars

\* A release task that succeeded is about to return: its channel is NONE and
\* has no observer, and still has the interface name of its last owner.
C14_Witness ==
    /\ cur.op = "release"
    /\ pc = "notifyActivityTracker_clear"
    /\ cur.obs = pre.observer[cur.ch]
    /\ focus[cur.ch] = "NONE"
    /\ observer[cur.ch] = NoObserver
    /\ interface[cur.ch] \in Interfaces

\* Two entries have the same name or the same priority.
Conflict(e, f) == e.name = f.name \/ e.priority = f.priority

\* C15: at every turn of the constructor's loop, an entry already seen was
\* kept iff no entry kept before it has its name or its priority; the registry
\* is made of the kept entries, which have pairwise distinct names and
\* pairwise distinct priorities; the first entry is always kept; and once the
\* list is done the registry is the one Construct gives.
C15_RegistryConstruction ==
    /\ \A i \in 1..(config.next - 1) :
          (i \in config.kept) <=>
              ~ \E j \in config.kept : j < i /\ Conflict(config.list[j], config.list[i])
    /\ registry = {config.list[i] : i \in config.kept}
    /\ \A i, j \in config.kept : i # j => ~Conflict(config.list[i], config.list[j])
    /\ \A e, f \in registry : Conflict(e, f) => e = f
    /\ config.next > 1 => 1 \in config.kept
    /\ config.next = Len(config.list) + 1 => registry = Construct(config.list, {})

\* The constructor is done with the list ({A,1}, {B,1}) and has kept A only.
C15_Witness ==
    /\ config.list = << [name |-> "A", priority |-> 1], [name |-> "B", priority |-> 1] >>
    /\ config.next = 3
    /\ config.kept = {1}
    /\ registry = {[name |-> "A", priority |-> 1]}

\* The callbacks of a log made by channel ch to its observer.
FromChannel(log, ch) ==
    LET isFrom(cb) == cb.ch = ch /\ cb.to \in Observers IN SelectSeq(log, isFrom)

\* The running task is an acquire of a channel that had an observer when the
\* task started.
AcquiresOwned == cur.op = "acquire" /\ pre.observer[cur.ch] # NoObserver

\* In an acquire task of an owned channel, the new observer is attached after
\* the previous one got NONE from the channel and was detached; and the
\* callbacks of the channel in the whole task are that NONE to the previous
\* observer, then FOREGROUND or BACKGROUND callbacks to the new one only.
PreviousToldFirst ==
    /\ (AcquiresOwned /\ pc = "acquire_setObserver" /\ pc' # pc) =>
          /\ FromChannel(notified, cur.ch) =
                << [to |-> pre.observer[cur.ch], ch |-> cur.ch, state |-> "NONE"] >>
          /\ observer[cur.ch] = NoObserver
          /\ observer'[cur.ch] = cur.obs
    /\ (AcquiresOwned /\ AnyTaskEnds) =>
          LET fromT == FromChannel(notified, cur.ch) IN
          /\ Len(fromT) >= 1
          /\ fromT[1] = [to |-> pre.observer[cur.ch], ch |-> cur.ch, state |-> "NONE"]
          /\ \A i \in 2..Len(fromT) : fromT[i].to = cur.obs /\ fromT[i].state # "NONE"

\* C16 as claimed: PreviousToldFirst, and in the whole task the previous
\* observer gets nothing from the channel but that NONE.
C16_PreviousGetsNoneOnly ==
    [][/\ PreviousToldFirst
       /\ (AcquiresOwned /\ AnyTaskEnds) =>
             \A i \in 2..Len(FromChannel(notified, cur.ch)) :
                FromChannel(notified, cur.ch)[i].to # pre.observer[cur.ch]
    ]_vars

\* C16 as amended: PreviousToldFirst, and when the new observer is not the
\* previous one, the previous observer gets nothing from the channel but that
\* NONE and the new observer gets no NONE.
C16_PreviousGetsNoneOnlyUnlessSame ==
    [][/\ PreviousToldFirst
       /\ (AcquiresOwned /\ AnyTaskEnds /\ cur.obs # pre.observer[cur.ch]) =>
             LET fromT == FromChannel(notified, cur.ch) IN
             /\ \A i \in 2..Len(fromT) : fromT[i].to # pre.observer[cur.ch]
             /\ \A i \in 1..Len(fromT) : fromT[i].to = cur.obs => fromT[i].state # "NONE"
    ]_vars

\* An acquire task that took a channel from another observer is about to
\* return: the previous observer got NONE, the new one a focus state.
C16_Witness ==
    /\ cur.op = "acquire"
    /\ pc = "notifyActivityTracker_clear"
    /\ pre.observer[cur.ch] \notin {NoObserver, cur.obs}
    /\ Len(FromChannel(notified, cur.ch)) = 2
    /\ FromChannel(notified, cur.ch)[2].to = cur.obs

\* The task submitted k-th waits in the queue.
Queued(k) == \E i \in DOMAIN queue : queue[i].id = k

\* C17: with a fair worker and finitely many calls, every queued task is
\* eventually the running task and every running task eventually returns;
\* every promise of releaseChannel eventually has a value, and a promise that
\* has a value keeps it; and when an acquire task returns, its channel is
\* active and FOREGROUND or BACKGROUND.
C17_EveryTaskRuns ==
    /\ \A k \in 1..MaxOpsLive : Queued(k) ~> (cur.id = k)
    /\ \A k \in 1..MaxOpsLive : Queued(k) ~> (nSubmitted >= k /\ ~Queued(k) /\ cur.id # k)
    /\ \A k \in 1..MaxOpsLive : (k \in DOMAIN futures) ~> (k \in DOMAIN futures /\ futures[k].val # "pending")
    /\ [][/\ \A k \in DOMAIN futures :
               futures[k].val # "pending" => futures'[k].val = futures[k].val
          /\ TaskEnds("acquire") =>
               /\ cur.ch \in m_activeChannels'
               /\ focus'[cur.ch] \in {"FOREGROUND", "BACKGROUND"}
       ]_vars

\* Three tasks were submitted and all have run: a release that waited in the
\* queue has resolved its promise to true, and an acquire has left its channel
\* active.
C17_Witness ==
    /\ pc = "idle"
    /\ queue = << >>
    /\ nSubmitted >= 3
    /\ \E k \in DOMAIN futures : futures[k].val = "true"
    /\ \E c \in m_activeChannels : focus[c] = "FOREGROUND"

\* The step in which a stopForegroundActivity task that passed its tests
\* vacates its channel.
StopVacates == pc = "stopForeground_setNone" /\ pc' # pc

\* C18 as claimed: the channel a stopForegroundActivity task vacates is the
\* highest-priority active channel and is FOREGROUND at that moment.
C18_VacatesForegroundOnly ==
    [][StopVacates =>
        /\ cur.ch = getHighestPriorityActiveChannelLocked(m_activeChannels)
        /\ focus[cur.ch] = "FOREGROUND"
    ]_vars

\* C18 as amended: a stopForegroundActivity call snapshots the
\* highest-priority active channel and its interface name, and its task
\* carries that snapshot; the channel the task vacates is active, FOREGROUND
\* or BACKGROUND, has an observer and has the snapshotted interface name.
C18_VacatesSnapshottedChannel ==
    [][/\ \A c \in callers' : (c.op = "stopForeground" /\ nCalls' # nCalls /\ c.call = nCalls') =>
              /\ c.ch = getHighestPriorityActiveChannelLocked(m_activeChannels)
              /\ c.iface = interface[c.ch]
       /\ (nSubmitted' # nSubmitted /\ nCalls' = nCalls /\ queue'[1].op = "stopForeground") =>
              \E c \in callers : c.op = "stopForeground" /\ c.ch = queue'[1].ch /\ c.iface = queue'[1].iface
       /\ StopVacates =>
              /\ cur.ch \in m_activeChannels
              /\ focus[cur.ch] \in {"FOREGROUND", "BACKGROUND"}
              /\ observer[cur.ch] # NoObserver
              /\ interface[cur.ch] = cur.iface
    ]_vars

\* A stopForegroundActivity task is about to vacate a channel that went to
\* the background after the call's snapshot.
C18_Witness ==
    /\ pc = "stopForeground_setNone"
    /\ focus[cur.ch] = "BACKGROUND"
    /\ cur.ch # getHighestPriorityActiveChannelLocked(m_activeChannels)

\* The channels of the running stop task's snapshot that now have an observer
\* other than the one they had at the snapshot: an acquire task has attached
\* it since.
Reowned == {p[1] : p \in {q \in cur.attached : observer[q[1]] \notin {NoObserver, q[2]}}}

\* The interface name the running stop task's snapshot has for channel c.
SnapshotInterface(c) ==
    IF cur.op = "stopForeground" THEN cur.iface
    ELSE (CHOOSE p \in cur.owners : p[1] = c)[2]

\* The steps in which a stop task decides which channels it vacates.
StopForegroundDecides == pc = "stopForeground_check" /\ pc' # pc
StopAllDecides == pc = "stopAll_lock" /\ pc' # pc

\* C19 as claimed: a stop task vacates no channel of its snapshot that has
\* got another observer since the snapshot.
C19_EveryOwnershipChangeDetected ==
    [][/\ (StopForegroundDecides /\ cur.ch \in Reowned) => cur' = NoTask
       /\ StopAllDecides => \A c \in Reowned : c \notin local'.channelsToClear /\ c \in m_activeChannels'
    ]_vars

\* C19 as amended: a stop task leaves alone a channel of its snapshot that has
\* got another observer since the snapshot iff the channel's interface name is
\* no longer the snapshotted one; when the name is the same, it vacates the
\* channel.
C19_ChangeDetectedByNameOnly ==
    [][/\ (StopForegroundDecides /\ cur.ch \in Reowned) =>
             IF interface[cur.ch] # SnapshotInterface(cur.ch)
             THEN cur' = NoTask /\ UNCHANGED << focus, observer, m_activeChannels >>
             ELSE pc' = "stopForeground_setNone"
       /\ StopAllDecides =>
             \A c \in Reowned :
                IF interface[c] # SnapshotInterface(c)
                THEN c \notin local'.channelsToClear /\ c \in m_activeChannels'
                ELSE c \in local'.channelsToClear /\ c \notin m_activeChannels'
    ]_vars

\* A stopAllActivities task is about to test a snapshotted channel that has
\* got another observer and another interface name since the snapshot.
C19_Witness ==
    /\ pc = "stopAll_lock"
    /\ \E c \in Reowned : interface[c] # SnapshotInterface(c) /\ c \in m_activeChannels

\* The FOREGROUND and BACKGROUND callbacks in log made to channel observer o.
ToldActive(log, o) ==
    SelectSeq(log, LAMBDA n : n.to = o /\ n.state \in {"FOREGROUND", "BACKGROUND"})

\* The step in which an acquire task ends.
AcquireTaskEnds == cur.op = "acquire" /\ cur' = NoTask

\* The channels with FOREGROUND focus.
Foregrounded == {c \in Channels : focus[c] = "FOREGROUND"}

\* C20 as claimed: an acquire task tells the observer it attaches exactly one
\* FOREGROUND or BACKGROUND; when a task ends, the last focus state the
\* observer of each active channel has been told is that channel's focus
\* state; and never are two channels FOREGROUND.
C20_ObserverViewConsistent ==
    /\ [](Cardinality(Foregrounded) <= 1)
    /\ [][/\ AcquireTaskEnds => Len(ToldActive(notified, cur.obs)) = 1
          /\ AnyTaskEnds =>
                \A c \in m_activeChannels' :
                   observer'[c] # NoObserver => delivered'.last[observer'[c]] = focus'[c]
       ]_vars

\* C20 as amended: an acquire task makes exactly one FOREGROUND or BACKGROUND
\* callback for the acquired channel to the observer it attaches, and any
\* other callback that observer gets in the task is for another channel it
\* is attached to; when a task ends, every active channel has an observer and
\* the last focus state the channel has told it is the channel's focus
\* state; and never are two channels FOREGROUND.
C20_ChannelViewConsistent ==
    /\ [](Cardinality(Foregrounded) <= 1)
    /\ [][/\ AcquireTaskEnds =>
                /\ Len(ToldActive(FromChannel(notified, cur.ch), cur.obs)) = 1
                /\ \A i \in DOMAIN ToldActive(notified, cur.obs) :
                      LET n == ToldActive(notified, cur.obs)[i] IN
                      n.ch # cur.ch => pre.observer[n.ch] = cur.obs /\ observer[n.ch] = cur.obs
          /\ AnyTaskEnds =>
                \A c \in m_activeChannels' :
                   observer'[c] # NoObserver /\ delivered'.seen[c] = focus'[c]
       ]_vars

\* An acquire task is ending in which the observer it attached has been told
\* FOREGROUND for the acquired channel and BACKGROUND for the channel it
\* already held, which the acquire preempted.
C20_Witness ==
    /\ pc = "notifyActivityTracker"
    /\ cur.op = "acquire"
    /\ Len(ToldActive(notified, cur.obs)) = 2
    /\ Len(ToldActive(FromChannel(notified, cur.ch), cur.obs)) = 1
    /\ delivered.seen[cur.ch] = "FOREGROUND"
    /\ \E c \in m_activeChannels \ {cur.ch} : observer[c] = cur.obs /\ delivered.seen[c] = "BACKGROUND"

=============================================================================
